---- MODULE Spec2Model ----
(***************************************************************************)
(* Connection supervisor of the Discord adapter.                           *)
(*                                                                         *)
(* DiscordClientManager (src/src/recv_handler/discord_client.py) owns the  *)
(* gateway client handle and the flags is_connected, is_shutting_down and  *)
(* is_reconnecting.  ConnectionMonitorTask (src/src/background_tasks.py)   *)
(* probes the client periodically and calls force_reconnect.  All          *)
(* coroutines run on one asyncio event loop, so the code between two       *)
(* awaits is one atomic step; every action below is one such step.         *)
(***************************************************************************)
EXTENDS Integers, FiniteSets, Sequences, TLC

\* Bounds of the model.
MaxClients == 3
MaxTasks == 2
MaxAttempt == 1

Clients == 1..MaxClients
TaskIds == 1..MaxTasks

\* The two places force_reconnect is called from: the connection monitor
\* and a higher-level component using the public method.
Callers == {"mon", "ext"}

VARIABLES
    client,            \* self.client: the current client handle
    closed,            \* closed[c]: c.is_closed()
    phase,             \* phase[c]: session of client c: new, login, ready, down, ended
    is_connected,
    is_shutting_down,
    is_reconnecting,
    reconnect_task,    \* self._reconnect_task: 0 is None, otherwise a task id
    tasks,             \* tasks[t]: the coroutine _reconnect_client of task t
    s,                 \* the coroutine start()
    fr,                \* fr[c]: the force_reconnect call of caller c
    extcalls,          \* parity of the number of force_reconnect calls from outside
    m,                 \* the connection monitor loop
    sd,                \* the shutdown sequence (graceful_shutdown)
    thread_context_map, \* ThreadRoutingManager._thread_context_map
    channel_cache,     \* ThreadRoutingManager._channel_cache: the ids it holds a handle for
    deleted,           \* the threads that were deleted from the guild
    inherit,           \* global_config.chat.inherit_channel_memory
    last,              \* the message handled last, inbound or outbound, and what came of it
    built,             \* DiscordContentBuilder.build: the segment tree and its result
    dispatch,          \* _send_with_length_check: the content, its parts and the sends made
    handlers,          \* the events self.client has a handler registered for
    is_running,        \* ReactionEventTask.is_running
    stale,             \* the ids whose cached handle belongs to a client that was replaced
    inbound,           \* handle_discord_message: the message it forwards to the core
    shutdown_event,    \* shutdown_event.is_set()
    client_queue,      \* discord_client.message_queue
    main_queue,        \* message_queue of main.py
    collector,         \* discord_message_collector: the message it holds
    processor,         \* message_process: waiting for a message or inside the handler
    handed,            \* the messages handle_discord_message was called with, in order
    accepted           \* the number of messages _on_message has put into its queue

\* The state of the connection supervisor and of the message routing
supVars == <<client, closed, phase, is_connected, is_shutting_down,
             is_reconnecting, reconnect_task, tasks, s, fr, extcalls, m, sd>>

routeVars == <<thread_context_map, channel_cache, deleted, inherit, last>>

pipeVars == <<built, dispatch>>

\* The state of the components the plugin host and the runner add
\* The inbound messages on their way from the gateway callback to the handler
queueVars == <<client_queue, main_queue, collector, processor, handed, accepted>>

\* The messages on their way through the adapter and the runner's event
flowVars == <<inbound, shutdown_event, queueVars>>

hostVars == <<handlers, is_running, stale, flowVars>>

vars == <<client, closed, phase, is_connected, is_shutting_down,
          is_reconnecting, reconnect_task, tasks, s, fr, extcalls, m, sd,
          thread_context_map, channel_cache, deleted, inherit, last,
          built, dispatch, handlers, is_running, stale, inbound, shutdown_event,
          client_queue, main_queue, collector, processor, handed, accepted>>

Min(a, b) == IF a < b THEN a ELSE b

(***************************************************************************)
(* Errors raised by client.start(token).                                   *)
(***************************************************************************)
\* LoginFailure: the token was rejected ("Improper token has been passed.").
\* HTTPException: any other HTTP error of the login request, such as
\* "503 Service Unavailable".  OSError: the network-class errors (timeout,
\* DNS, TLS) and every other exception, which both loops treat alike.
ErrKinds == {"LoginFailure", "HTTPException", "OSError"}

\* isinstance(e, (discord.LoginFailure, discord.HTTPException))
IsLoginOrHTTP(e) == e \in {"LoginFailure", "HTTPException"}

\* any(keyword in str(e).lower() for keyword in ("login", "token", "unauthorized"))
HasTokenKeyword(e) == e = "LoginFailure"

(***************************************************************************)
(* Latency samples: client.latency is a float or None.                     *)
(***************************************************************************)
LatencySeconds == {-1, 0, 5, 10}

Latencies == {[k |-> x, v |-> 0] : x \in {"None", "NaN", "Inf", "NegInf"}}
             \cup {[k |-> "num", v |-> n] : n \in LatencySeconds}

\* latency < x for a float latency (NaN compares false with everything)
FloatLess(l, x) ==
    CASE l.k = "num" -> l.v < x
      [] l.k = "NegInf" -> TRUE
      [] OTHER -> FALSE

\* x < latency
FloatGreater(l, x) ==
    CASE l.k = "num" -> l.v > x
      [] l.k = "Inf" -> TRUE
      [] OTHER -> FALSE

\* latency >= x
FloatGeq(l, x) ==
    CASE l.k = "num" -> l.v >= x
      [] l.k = "Inf" -> TRUE
      [] OTHER -> FALSE

\* latency is None or latency == inf or latency != latency or latency < 0
LatencyInvalid(l) ==
    \/ l.k = "None"
    \/ l.k = "Inf"
    \/ l.k = "NaN"
    \/ FloatLess(l, 0)

\* Variant of ProbeHealthy: the upper limit of the latency is missing.
ProbeHealthy_NoLimit(r, l) ==
    r /\ ~LatencyInvalid(l) /\ FloatGreater(l, 0)

\* is_ready and not latency_invalid and 0 < latency < 10.0
ProbeHealthy(r, l) ==
    r /\ ~LatencyInvalid(l) /\ FloatGreater(l, 0) /\ FloatLess(l, 10)

\* is_ready and (latency_invalid or latency >= 10.0)
ProbeLatencyAbnormal(r, l) ==
    r /\ (LatencyInvalid(l) \/ FloatGeq(l, 10))

\* What _quick_check_ready hands back within the 3 second limit; an
\* exception inside it yields (False, None).
Samples == [ready : BOOLEAN, lat : Latencies]

NoSample == [ready |-> TRUE, lat |-> [k |-> "num", v |-> 5]]

(***************************************************************************)
(* Initial state: DiscordClientManager.__init__ has built the first        *)
(* client, run_adapter has created the start() task and the monitor waits  *)
(* in before_loop.                                                         *)
(***************************************************************************)
NoTask == [pc |-> "none", attempt |-> 0, cl |-> 0, cancel |-> FALSE, err |-> "none"]

ManagerInit ==
    /\ client = 1
    /\ closed = [c \in Clients |-> FALSE]
    /\ phase = [c \in Clients |-> "new"]
    /\ is_connected = FALSE
    /\ is_shutting_down = FALSE
    /\ is_reconnecting = FALSE
    /\ reconnect_task = 0
    /\ tasks = [t \in TaskIds |-> NoTask]
    /\ s = [pc |-> "init", attempt |-> 0, cl |-> 0, cancel |-> FALSE, err |-> "none"]
    /\ fr = [c \in Callers |-> [pc |-> "idle", wt |-> 0]]
    /\ extcalls = 0
    /\ m = [pc |-> "before", branch |-> "none", sample |-> NoSample]
    /\ sd = "idle"

(***************************************************************************)
(* Message routing (ThreadRoutingManager, DiscordSendHandler and           *)
(* DiscordMessageHandler).  The guild has two text channels, 1 and 2, and  *)
(* three threads: 3 and 4 under channel 1, 5 under channel 2.  0 stands    *)
(* for None wherever a channel handle is expected.                         *)
(***************************************************************************)
TextChannels == {1, 2}

Threads == {3, 4, 5}

ChannelIds == TextChannels \cup Threads

ParentOf(t) == IF t = 5 THEN 2 ELSE 1

\* str(id) of a channel id, and int(text) with the texts it fails on
IdText == <<"1", "2", "3", "4", "5">>

Str(n) == IdText[n]

IsNumeric(x) == \E n \in ChannelIds : IdText[n] = x

ToInt(x) == CHOOSE n \in ChannelIds : IdText[n] = x

\* The keys the store is ever asked about (str(channel.id) of a text
\* channel); "None" stands for a key the dict does not hold.
ParentKeys == {Str(p) : p \in TextChannels}

RouterInit ==
    /\ thread_context_map = [p \in ParentKeys |-> "None"]
    /\ channel_cache = {}
    /\ deleted = {}
    /\ last = [kind |-> "none"]

PipeInit ==
    /\ built = [pc |-> "idle"]
    /\ dispatch = [pc |-> "idle"]

\* The events _setup_client registers a handler for on the client it builds
ClientEvents ==
    {"on_ready", "on_message", "on_error", "on_disconnect", "on_resume",
     "on_voice_state_update"}

\* The events ReactionEventTask.start registers a handler for
ReactionEvents == {"on_raw_reaction_add", "on_raw_reaction_remove"}

\* __init__ has called _setup_client; no ReactionEventTask is started (the
\* standalone runner registers none)
HostInit ==
    /\ handlers = ClientEvents
    /\ is_running = FALSE
    /\ stale = {}
    /\ inbound = [pc |-> "idle", channel |-> 0, replied |-> FALSE]
    /\ shutdown_event = FALSE
    /\ client_queue = <<>>
    /\ main_queue = <<>>
    /\ collector = 0
    /\ processor = "waiting"
    /\ handed = <<>>
    /\ accepted = 0

Init ==
    ManagerInit /\ RouterInit /\ PipeInit /\ HostInit /\ inherit = TRUE

RoutingInit ==
    ManagerInit /\ RouterInit /\ PipeInit /\ HostInit /\ inherit \in BOOLEAN

UpdateThreadContext(map, parent_channel_id, thread_id) ==
    [map EXCEPT ![parent_channel_id] = thread_id]

ClearThreadContext_All(map, parent_channel_id) ==
    [p \in DOMAIN map |-> "None"]

ClearThreadContext(map, parent_channel_id) ==
    [map EXCEPT ![parent_channel_id] = "None"]

GetActiveThread(map, parent_channel_id) ==
    map[parent_channel_id]

\* The gateway session holds the guild's channels from READY on and keeps
\* them while the session is down; a closed or never-ready client has none.
GatewayUp == ~closed[client] /\ phase[client] \in {"ready", "down"}

GetChannel(id) ==
    IF GatewayUp /\ id \notin deleted THEN id ELSE 0

FetchChannel(id) ==
    IF GatewayUp /\ id \notin deleted THEN id ELSE 0

\* _get_cached_channel, then client.get_channel
CachedOrGet(cache, id) ==
    IF id \in cache THEN id ELSE GetChannel(id)

\* Where the message a reply segment names can be fetched: in channel 1
\* ("parent"), in thread 3 ("thread"), or nowhere: the fetch fails with
\* NotFound, Forbidden or another HTTPException ("unknown") or the id is not
\* a number ("invalid").
ReplyChannel(reply) ==
    IF reply = "parent" THEN 1 ELSE IF reply = "thread" THEN 3 ELSE 0

FindThreadByMessageId(reply, parent) ==
    IF GetChannel(parent) \notin TextChannels THEN 0
    ELSE LET found == {t \in Threads \ deleted :
                          ParentOf(t) = parent /\ ReplyChannel(reply) = t}
         IN IF found = {} THEN 0 ELSE CHOOSE t \in found : TRUE

ReplyInParentChannel_Never(reply, parent) == FALSE

ReplyInParentChannel(reply, parent) ==
    /\ GetChannel(parent) \in TextChannels
    /\ ReplyChannel(reply) = parent

\* What _resolve_guild_target hands back: the destination (0 for None), the
\* cache it leaves behind and whether it raised instead of returning.
Resolved(dest, cache) == [dest |-> dest, cache |-> cache, raised |-> FALSE]

Raised(cache) == [dest |-> 0, cache |-> cache, raised |-> TRUE]

\* Lines 205-219: the target is a text channel
ResolveTextChannel(channel, map, cache, reply_in_parent, send_messages) ==
    IF ~send_messages THEN Resolved(0, cache)
    ELSE LET active == GetActiveThread(map, Str(channel))
             mapped == IF active = "None" THEN 0
                       ELSE CachedOrGet(cache, ToInt(active))
         IN IF inherit /\ ~reply_in_parent /\ mapped \in Threads
            THEN Resolved(mapped, cache)
            ELSE Resolved(channel, cache)

\* Lines 185-222: look the declared target up and check the permission
ResolveTarget(target_id, map, cache, reply_in_parent, send_messages, send_in_threads) ==
    LET cached == CachedOrGet(cache, target_id)
        channel == IF cached # 0 THEN cached ELSE FetchChannel(target_id)
        cache2 == IF channel # 0 THEN cache \cup {target_id} ELSE cache
    IN IF channel = 0 THEN Resolved(0, cache2)
       ELSE IF channel \in Threads
            THEN Resolved(IF send_in_threads THEN channel ELSE 0, cache2)
            ELSE ResolveTextChannel(channel, map, cache2, reply_in_parent, send_messages)

\* Lines 179-183: the reply segment, looked at only under inheritance
ResolveReply(msg, target_id, map, cache, send_messages, send_in_threads) ==
    LET use_reply == msg.reply # "none" /\ inherit
        thread == IF use_reply THEN FindThreadByMessageId(msg.reply, target_id) ELSE 0
    IN IF thread # 0 THEN Resolved(thread, cache)
       ELSE ResolveTarget(target_id, map, cache,
                          use_reply /\ ReplyInParentChannel(msg.reply, target_id),
                          send_messages, send_in_threads)

HintedThread_Ignored(hint, cache) == 0

\* Lines 166-177: the routing hint of a thread_context segment
HintedThread(hint, cache) ==
    LET thread == CachedOrGet(cache, ToInt(hint))
    IN IF thread \in Threads THEN thread ELSE 0

ResolveGuildTarget(msg, map, cache, send_messages, send_in_threads) ==
    IF ~IsNumeric(msg.group_id) THEN Raised(cache)
    ELSE IF msg.hint = "nokey" THEN Raised(cache)
    ELSE LET target_id == ToInt(msg.group_id)
             hinted == IF msg.hint = "none" THEN 0
                       ELSE CachedOrGet(cache, ToInt(msg.hint))
             cache1 == IF hinted # 0 THEN cache \cup {hinted} ELSE cache
         IN IF msg.hint # "none" /\ HintedThread(msg.hint, cache) # 0
            THEN Resolved(HintedThread(msg.hint, cache), cache1)
            ELSE ResolveReply(msg, target_id, map, cache1, send_messages, send_in_threads)

GetReplyReference_Always(msg, channel) == msg.reply

\* get_reply_reference: the message to reply to, fetched in the destination
GetReplyReference(msg, channel) ==
    IF msg.reply \in {"none", "invalid"} THEN "none"
    ELSE IF ReplyChannel(msg.reply) = channel /\ channel \notin deleted
         THEN msg.reply
         ELSE "none"

SendIssued_Always(r) == TRUE

\* _handle_regular_message: channel.send is reached when a destination was
\* resolved (the message has content)
SendIssued(r) == ~r.raised /\ r.dest # 0

\* The outbound bus messages: the declared target (group_id), the hint
\* (original_thread_id of a thread_context segment, "nokey" for a segment
\* without that key, "none" for no segment), the reply segment, and what
\* the bot may do at the time: send_messages in the parent channel and
\* send_messages_in_threads.
Messages ==
    [kind            : {"pending"},
     group_id        : {"1", "3", "abc"},
     hint            : {"none", "3", "4", "nokey"},
     reply           : {"none", "parent", "thread", "unknown", "invalid"},
     send_messages   : BOOLEAN,
     send_in_threads : BOOLEAN]

NoEvent == [kind |-> "none"]

\* The router hands a bus message to the registered handler
RouterDelivers ==
    /\ last = NoEvent
    /\ last' \in Messages
    /\ UNCHANGED <<thread_context_map, channel_cache, deleted, inherit>>
    /\ UNCHANGED supVars

\* DiscordSendHandler.handle_message for a regular guild message with
\* content: resolve, then channel.send on the destination if there is one.
HandleMessage ==
    /\ last.kind = "pending"
    /\ LET r == ResolveGuildTarget(last, thread_context_map, channel_cache,
                                   last.send_messages, last.send_in_threads)
       IN /\ channel_cache' = r.cache
          /\ last' = [kind |-> "outbound", msg |-> last,
                      dest |-> r.dest, raised |-> r.raised,
                      sent |-> SendIssued(r),
                      reference |-> IF SendIssued(r)
                                    THEN GetReplyReference(last, r.dest)
                                    ELSE "none"]
    /\ UNCHANGED <<thread_context_map, deleted, inherit>>
    /\ UNCHANGED supVars

\* DiscordMessageHandler.handle_discord_message for a message posted in
\* channel ch: the conversion gives nothing ("skipped"), the bus send raises
\* ("failed") or the message is forwarded and the store is brought up to date.
HandleDiscordMessage ==
    \E ch \in ChannelIds \ deleted, outcome \in {"forwarded", "skipped", "failed"} :
        /\ last = NoEvent
        /\ GatewayUp
        /\ thread_context_map' =
              IF outcome = "forwarded" /\ inherit
              THEN IF ch \in Threads
                   THEN UpdateThreadContext(thread_context_map, Str(ParentOf(ch)), Str(ch))
                   ELSE ClearThreadContext(thread_context_map, Str(ch))
              ELSE thread_context_map
        /\ last' = [kind |-> "inbound", channel |-> ch, outcome |-> outcome]
        /\ UNCHANGED <<channel_cache, deleted, inherit>>
        /\ UNCHANGED supVars

\* The handler has returned; the next message can be taken up
HandlerReturns ==
    /\ last.kind \in {"outbound", "inbound"}
    /\ last' = NoEvent
    /\ UNCHANGED <<thread_context_map, channel_cache, deleted, inherit>>
    /\ UNCHANGED supVars

\* A thread is deleted in the guild: the gateway drops it from its cache
ThreadDeleted ==
    \E t \in Threads \ deleted :
        /\ GatewayUp
        /\ deleted' = deleted \cup {t}
        /\ UNCHANGED <<thread_context_map, channel_cache, inherit, last>>
        /\ UNCHANGED supVars

(***************************************************************************)
(* The gateway client.  A client object lives as long as the manager or a  *)
(* coroutine refers to it; the identities of dropped objects are reused.   *)
(***************************************************************************)
\* Some coroutine is suspended in `await c.start(token)`.
Awaited(c) ==
    \/ s.pc = "connecting" /\ s.cl = c
    \/ \E t \in TaskIds : tasks[t].pc = "connecting" /\ tasks[t].cl = c

\* Identities no object uses
FreeClients ==
    {c \in Clients : c # client /\ s.cl # c /\ \A t \in TaskIds : tasks[t].cl # c}

\* discord.Client(intents=intents): the object _setup_client constructs
NewClient ==
    CHOOSE c \in FreeClients : \A d \in FreeClients : c <= d

\* The objects referred to after the step: self.client and the clients
\* whose start() some coroutine awaits.
Referenced ==
    {client'} \cup {s'.cl} \cup {tasks'[t].cl : t \in TaskIds}

\* The step leaves the clients with closed flags cl and sessions ph;
\* objects nobody refers to any more are dropped.
Clean(cl, ph) ==
    /\ closed' = [c \in Clients |-> IF c \in Referenced THEN cl[c] ELSE FALSE]
    /\ phase' = [c \in Clients |-> IF c \in Referenced THEN ph[c] ELSE "new"]

\* self.client.start(token) is invoked on client c: the sessions afterwards
InvokeStart(c) ==
    [phase EXCEPT ![c] = IF @ \in {"new", "ended"} THEN "login" ELSE @]

\* The ways `await c.start(token)` can end for the awaiting coroutine:
\* a normal return once the client was closed, a login error before the
\* session is ready, a network or other error at any time.
ConnectOutcomes(c) ==
    (IF closed[c] THEN {"returned"} ELSE {})
    \cup (IF phase[c] = "login" THEN {"LoginFailure", "HTTPException"} ELSE {})
    \cup {"OSError"}

\* on_ready -> _on_ready, the first session of a client.  (A session
\* re-established after a drop has the same effect as on_resume below.)
OnReady(c) ==
    /\ ~closed[c]
    /\ phase[c] = "login"
    /\ Awaited(c)
    /\ phase' = [phase EXCEPT ![c] = "ready"]
    /\ is_connected' = TRUE
    /\ UNCHANGED <<client, closed, is_shutting_down, is_reconnecting,
                   reconnect_task, tasks, s, fr, extcalls, m, sd>>

\* on_resume -> _on_resume
OnResume(c) ==
    /\ ~closed[c]
    /\ phase[c] = "down"
    /\ Awaited(c)
    /\ phase' = [phase EXCEPT ![c] = "ready"]
    /\ is_connected' = TRUE
    /\ UNCHANGED <<client, closed, is_shutting_down, is_reconnecting,
                   reconnect_task, tasks, s, fr, extcalls, m, sd>>

\* on_disconnect -> _on_disconnect
OnDisconnect(c) ==
    /\ phase[c] = "ready"
    /\ Awaited(c)
    /\ phase' = [phase EXCEPT ![c] = "down"]
    /\ is_connected' = FALSE
    /\ UNCHANGED <<client, closed, is_shutting_down, is_reconnecting,
                   reconnect_task, tasks, s, fr, extcalls, m, sd>>

(***************************************************************************)
(* start(): the initial connect loop.                                      *)
(***************************************************************************)
\* Variant of StartReraises: the handler never re-raises.
StartReraises_Never(e) == FALSE

\* `raise` in the LoginFailure/HTTPException handler of start()
StartReraises(e) == HasTokenKeyword(e)

\* First iteration (attempt = 0): await self.client.start(token)
StartBegin ==
    /\ s.pc = "init"
    /\ s' = [s EXCEPT !.pc = "connecting", !.cl = client]
    /\ phase' = InvokeStart(client)
    /\ UNCHANGED <<client, closed, is_connected, is_shutting_down,
                   is_reconnecting, reconnect_task, tasks, fr, extcalls, m, sd>>

\* `await self.client.start(token)` ends in start()
StartConnectEnds ==
    /\ s.pc = "connecting"
    /\ ~s.cancel
    /\ \E o \in ConnectOutcomes(s.cl) :
          s' = IF o = "returned"
                  THEN [s EXCEPT !.pc = "returned", !.err = o, !.cl = 0]
               ELSE IF IsLoginOrHTTP(o) /\ StartReraises(o)
                  THEN [s EXCEPT !.pc = "raised", !.err = o, !.cl = 0]
               ELSE [s EXCEPT !.pc = "sleep", !.err = o, !.cl = 0,
                              !.attempt = Min(@ + 1, MaxAttempt)]
    /\ UNCHANGED <<client, is_connected, is_shutting_down, is_reconnecting,
                   reconnect_task, tasks, fr, extcalls, m, sd>>
    /\ Clean(closed, [phase EXCEPT ![s.cl] = "ended"])

\* asyncio.sleep(retry_delay) is over; _reset_client closes the current
\* client if it is open, otherwise builds the new client at once and
\* start() goes on to connect it.
StartSleepDone ==
    /\ s.pc = "sleep"
    /\ ~s.cancel
    /\ UNCHANGED <<is_shutting_down, is_reconnecting, reconnect_task, tasks,
                   fr, extcalls, m, sd>>
    /\ IF ~closed[client]
          THEN /\ closed' = [closed EXCEPT ![client] = TRUE]
               /\ s' = [s EXCEPT !.pc = "closing", !.err = "none"]
               /\ UNCHANGED <<client, phase, is_connected>>
          ELSE /\ FreeClients # {}
               /\ client' = NewClient
               /\ is_connected' = FALSE
               /\ s' = [s EXCEPT !.pc = "connecting", !.cl = NewClient, !.err = "none"]
               /\ Clean(closed, [phase EXCEPT ![NewClient] = "login"])

\* `await self.client.close()` of _reset_client is over in start()
StartResetClosed ==
    /\ s.pc = "closing"
    /\ ~s.cancel
    /\ FreeClients # {}
    /\ client' = NewClient
    /\ is_connected' = FALSE
    /\ s' = [s EXCEPT !.pc = "connecting", !.cl = NewClient]
    /\ UNCHANGED <<is_shutting_down, is_reconnecting, reconnect_task, tasks,
                   fr, extcalls, m, sd>>
    /\ Clean(closed, [phase EXCEPT ![NewClient] = "login"])

\* CancelledError is thrown into start() at its await
StartCancelled ==
    /\ s.cancel
    /\ s.pc \in {"connecting", "sleep", "closing"}
    /\ s' = [s EXCEPT !.pc = "cancelled", !.err = "cancelled", !.cl = 0]
    /\ UNCHANGED <<client, is_connected, is_shutting_down, is_reconnecting,
                   reconnect_task, tasks, fr, extcalls, m, sd>>
    /\ Clean(closed, IF s.pc = "connecting" THEN [phase EXCEPT ![s.cl] = "ended"] ELSE phase)

(***************************************************************************)
(* _reconnect_client(): the reconnect task.                                *)
(***************************************************************************)
\* Variant of ReleasedFlag: the flag is reset at the end of the try block
\* instead of in a finally block, so a cancellation leaves it as it is.
ReleasedFlag_NotOnCancel(how) == IF how = "cancelled" THEN is_reconnecting ELSE FALSE

\* The value the finally block leaves in is_reconnecting; `how` is the way
\* the coroutine left its try block.
ReleasedFlag(how) == FALSE

\* `return` in the LoginFailure/HTTPException handler of _reconnect_client
ReconnectGivesUp(e) == IsLoginOrHTTP(e)

\* The task leaves the while loop or returns: the finally block runs.
TaskFinish(t, how) ==
    /\ tasks' = [tasks EXCEPT ![t].pc = "done", ![t].err = how, ![t].cl = 0]
    /\ is_reconnecting' = ReleasedFlag(how)

\* `while not self.is_shutting_down` after an attempt that asked for a retry
TaskLoopAgain(t, o) ==
    IF is_shutting_down
       THEN TaskFinish(t, "shutdown")
       ELSE /\ tasks' = [tasks EXCEPT ![t].pc = "sleep", ![t].cl = 0,
                                      ![t].attempt = Min(@ + 1, MaxAttempt)]
            /\ UNCHANGED is_reconnecting

\* First step of the task.  A task cancelled before its first step never
\* enters the try block, so its finally block does not run.
TaskRun(t) ==
    /\ tasks[t].pc = "created"
    /\ IF tasks[t].cancel
          THEN /\ tasks' = [tasks EXCEPT ![t].pc = "done", ![t].err = "cancelled"]
               /\ UNCHANGED <<is_reconnecting, phase>>
       ELSE IF is_shutting_down
          THEN /\ TaskFinish(t, "shutdown")
               /\ UNCHANGED phase
       ELSE /\ phase' = InvokeStart(client)
            /\ tasks' = [tasks EXCEPT ![t].pc = "connecting", ![t].cl = client]
            /\ UNCHANGED is_reconnecting
    /\ UNCHANGED <<client, closed, is_connected, is_shutting_down,
                   reconnect_task, s, fr, extcalls, m, sd>>

\* `await self.client.start(token)` ends in the task
TaskConnectEnds(t) ==
    /\ tasks[t].pc = "connecting"
    /\ ~tasks[t].cancel
    /\ \E o \in ConnectOutcomes(tasks[t].cl) :
          IF o = "returned"
             THEN /\ is_connected' = FALSE
                  /\ TaskLoopAgain(t, o)
          ELSE IF ReconnectGivesUp(o)
             THEN /\ TaskFinish(t, o)
                  /\ UNCHANGED is_connected
          ELSE /\ TaskLoopAgain(t, o)
               /\ UNCHANGED is_connected
    /\ UNCHANGED <<client, is_shutting_down, reconnect_task, s, fr, extcalls, m, sd>>
    /\ Clean(closed, [phase EXCEPT ![tasks[t].cl] = "ended"])

\* asyncio.sleep(retry_delay) is over in the task; _reset_client, then connect
TaskSleepDone(t) ==
    /\ tasks[t].pc = "sleep"
    /\ ~tasks[t].cancel
    /\ UNCHANGED <<is_shutting_down, is_reconnecting, reconnect_task, s, fr,
                   extcalls, m, sd>>
    /\ IF ~closed[client]
          THEN /\ closed' = [closed EXCEPT ![client] = TRUE]
               /\ tasks' = [tasks EXCEPT ![t].pc = "closing"]
               /\ UNCHANGED <<client, phase, is_connected>>
          ELSE /\ FreeClients # {}
               /\ client' = NewClient
               /\ is_connected' = FALSE
               /\ tasks' = [tasks EXCEPT ![t].pc = "connecting", ![t].cl = NewClient]
               /\ Clean(closed, [phase EXCEPT ![NewClient] = "login"])

\* `await self.client.close()` of _reset_client is over in the task
TaskResetClosed(t) ==
    /\ tasks[t].pc = "closing"
    /\ ~tasks[t].cancel
    /\ FreeClients # {}
    /\ client' = NewClient
    /\ is_connected' = FALSE
    /\ tasks' = [tasks EXCEPT ![t].pc = "connecting", ![t].cl = NewClient]
    /\ UNCHANGED <<is_shutting_down, is_reconnecting, reconnect_task, s, fr,
                   extcalls, m, sd>>
    /\ Clean(closed, [phase EXCEPT ![NewClient] = "login"])

\* CancelledError is thrown into the task at its await: both handlers
\* re-raise and the finally block runs.
TaskCancelled(t) ==
    /\ tasks[t].cancel
    /\ tasks[t].pc \in {"connecting", "sleep", "closing"}
    /\ TaskFinish(t, "cancelled")
    /\ UNCHANGED <<client, is_connected, is_shutting_down, reconnect_task, s, fr,
                   extcalls, m, sd>>
    /\ Clean(closed, IF tasks[t].pc = "connecting"
                        THEN [phase EXCEPT ![tasks[t].cl] = "ended"] ELSE phase)

(***************************************************************************)
(* force_reconnect()                                                       *)
(***************************************************************************)
\* Variant of SkipShuttingDown: the shutdown test is missing.
SkipShuttingDown_Never == FALSE

\* if self.is_shutting_down: return
SkipShuttingDown == is_shutting_down

\* Variant of SkipReconnecting: the test that prevents a second reconnect
\* is missing.
SkipReconnecting_Never == FALSE

\* if self.is_reconnecting: return
SkipReconnecting == is_reconnecting

\* asyncio.wait_for(self.client.close(), timeout=3.0) when the client is open,
\* then asyncio.sleep(0.5).  f is fr as the earlier part of the step left it.
FRCloseOld(c, f) ==
    IF ~closed[client]
       THEN /\ closed' = [closed EXCEPT ![client] = TRUE]
            /\ fr' = [f EXCEPT ![c].pc = "closing"]
       ELSE /\ fr' = [f EXCEPT ![c].pc = "sleep"]
            /\ UNCHANGED closed

\* force_reconnect up to its first await.  conn is is_connected as the
\* caller left it before the call.
ForceReconnect(c, f, conn) ==
    IF SkipShuttingDown \/ SkipReconnecting
       THEN /\ fr' = f
            /\ is_connected' = conn
            /\ UNCHANGED <<is_reconnecting, tasks, closed>>
       ELSE /\ is_reconnecting' = TRUE
            /\ is_connected' = FALSE
            /\ IF reconnect_task # 0 /\ tasks[reconnect_task].pc # "done"
                  THEN /\ tasks' = [tasks EXCEPT ![reconnect_task].cancel = TRUE]
                       /\ fr' = [f EXCEPT ![c].pc = "cancel_wait", ![c].wt = reconnect_task]
                       /\ UNCHANGED closed
                  ELSE /\ FRCloseOld(c, f)
                       /\ UNCHANGED tasks

\* The monitor's check returns when the force_reconnect it awaits returns.
MonitorAfter(c) ==
    m' = IF c = "mon" /\ fr'[c].pc = "idle"
            THEN [m EXCEPT !.pc = "idle", !.branch = "none"] ELSE m

\* A higher-level component calls force_reconnect.
ExtForceReconnect ==
    /\ fr["ext"].pc = "idle"
    /\ extcalls' = 1 - extcalls
    /\ ForceReconnect("ext", fr, is_connected)
    /\ UNCHANGED <<client, phase, is_shutting_down, reconnect_task,
                   s, m, sd>>

\* force_reconnect resumes after `await self._reconnect_task` or after the
\* bounded close of the old client (closed, timed out, or failed with an
\* error, which the except block handles).
FRResume(c) ==
    /\ fr[c].pc \in {"cancel_wait", "closing"}
    /\ IF fr[c].pc = "cancel_wait"
          THEN /\ tasks[fr[c].wt].pc \in {"done", "none"}
               /\ FRCloseOld(c, fr)
               /\ UNCHANGED <<is_connected, is_reconnecting>>
          ELSE \E o \in {"closed", "timeout", "error"} :
                  IF o = "error"
                     THEN /\ is_connected' = FALSE
                          /\ is_reconnecting' = FALSE
                          /\ fr' = [fr EXCEPT ![c].pc = "idle"]
                          /\ UNCHANGED closed
                     ELSE /\ fr' = [fr EXCEPT ![c].pc = "sleep"]
                          /\ UNCHANGED <<is_connected, is_reconnecting, closed>>
    /\ MonitorAfter(c)
    /\ UNCHANGED <<client, phase, is_shutting_down, reconnect_task,
                   tasks, s, extcalls, sd>>

\* Task objects are dropped like clients: a task that is done and is not
\* self._reconnect_task is referred to by nobody.
FreeTasks ==
    {t \in TaskIds : tasks[t].pc \in {"none", "done"} /\ t # reconnect_task}

\* asyncio.create_task(self._reconnect_client()): the new task object
NewTask ==
    CHOOSE t \in FreeTasks : \A u \in FreeTasks : t <= u

\* End of force_reconnect: _setup_client, is_connected = False,
\* self._reconnect_task = asyncio.create_task(self._reconnect_client())
FRFinish(c) ==
    /\ FreeClients # {}
    /\ FreeTasks # {}
    /\ client' = NewClient
    /\ is_connected' = FALSE
    /\ tasks' = [t \in TaskIds |->
                    IF t = NewTask THEN [NoTask EXCEPT !.pc = "created"]
                    ELSE IF tasks[t].pc = "done" THEN NoTask
                    ELSE tasks[t]]
    /\ reconnect_task' = NewTask
    /\ fr' = [fr EXCEPT ![c].pc = "idle"]
    /\ Clean(closed, phase)

\* asyncio.sleep(0.5) is over: _reset_client
FRSleepDone(c) ==
    /\ fr[c].pc = "sleep"
    /\ UNCHANGED <<is_shutting_down, is_reconnecting, s, extcalls, sd>>
    /\ IF ~closed[client]
          THEN /\ closed' = [closed EXCEPT ![client] = TRUE]
               /\ fr' = [fr EXCEPT ![c].pc = "reset_close"]
               /\ UNCHANGED <<client, phase, is_connected, tasks, reconnect_task>>
          ELSE FRFinish(c)
    /\ MonitorAfter(c)

\* `await self.client.close()` of _reset_client is over in force_reconnect
FRResetClosed(c) ==
    /\ fr[c].pc = "reset_close"
    /\ UNCHANGED <<is_shutting_down, is_reconnecting, s, extcalls, sd>>
    /\ FRFinish(c)
    /\ MonitorAfter(c)

(***************************************************************************)
(* ConnectionMonitorTask                                                   *)
(***************************************************************************)
\* before_loop: wait until the client is connected (or shutdown is seen)
MonBefore ==
    /\ m.pc = "before"
    /\ is_connected \/ is_shutting_down
    /\ m' = [m EXCEPT !.pc = "idle"]
    /\ UNCHANGED <<client, closed, phase, is_connected, is_shutting_down,
                   is_reconnecting, reconnect_task, tasks, s, fr, extcalls, sd>>

\* The check sets is_connected = False and awaits force_reconnect; `how`
\* is the branch of the check in which it waits.
MonForceReconnect(f, how) ==
    /\ ForceReconnect("mon", f, FALSE)
    /\ m' = IF fr'["mon"].pc = "idle"
               THEN [pc |-> "idle", branch |-> "none", sample |-> NoSample]
               ELSE [pc |-> "fr", branch |-> how, sample |-> NoSample]

\* The check ends without a call of force_reconnect
MonDone ==
    /\ m' = [pc |-> "idle", branch |-> "none", sample |-> NoSample]
    /\ UNCHANGED <<is_reconnecting, tasks, closed, fr>>

\* One iteration of connection_monitor up to the first await of
\* _check_connection_status, which creates the probe task
MonTick ==
    /\ m.pc = "idle"
    /\ IF is_shutting_down
          THEN MonDone /\ UNCHANGED is_connected
       ELSE IF is_reconnecting
          THEN MonDone /\ UNCHANGED is_connected
       ELSE IF closed[client]
          THEN IF is_connected
                  THEN MonForceReconnect(fr, "closed")
                  ELSE MonDone /\ UNCHANGED is_connected
       ELSE /\ m' = [m EXCEPT !.pc = "probe"]
            /\ UNCHANGED <<is_connected, is_reconnecting, tasks, closed, fr>>
    /\ UNCHANGED <<client, phase, is_shutting_down, reconnect_task,
                   s, extcalls, sd>>

\* The probe task runs _quick_check_ready: (is_ready, latency)
MonProbeRuns ==
    /\ m.pc = "probe"
    /\ \E smp \in Samples : m' = [m EXCEPT !.pc = "sampled", !.sample = smp]
    /\ UNCHANGED <<client, closed, phase, is_connected, is_shutting_down,
                   is_reconnecting, reconnect_task, tasks, s, fr, extcalls, sd>>

\* The check resumes with the sample and judges it
MonProbeDone ==
    /\ m.pc = "sampled"
    /\ IF ProbeHealthy(m.sample.ready, m.sample.lat)
          THEN /\ is_connected' = TRUE
               /\ MonDone
       ELSE IF is_connected
          THEN MonForceReconnect(fr, IF ProbeLatencyAbnormal(m.sample.ready, m.sample.lat)
                                        THEN "latency" ELSE "not_ready")
       ELSE MonDone /\ UNCHANGED is_connected
    /\ UNCHANGED <<client, phase, is_shutting_down, reconnect_task,
                   s, extcalls, sd>>

\* The probe does not answer within 3 seconds
MonProbeTimeout ==
    /\ m.pc = "probe"
    /\ IF is_connected
          THEN MonForceReconnect(fr, "probe_timeout")
          ELSE MonDone /\ UNCHANGED is_connected
    /\ UNCHANGED <<client, phase, is_shutting_down, reconnect_task,
                   s, extcalls, sd>>

\* asyncio.wait_for(self._check_connection_status(), timeout=30) expires while
\* the check waits inside force_reconnect on an await without a time limit:
\* the call is cancelled and the TimeoutError handler runs.
MonTimeout ==
    /\ m.pc = "fr"
    /\ fr["mon"].pc \in {"cancel_wait", "reset_close"}
    /\ IF ~is_reconnecting
          THEN MonForceReconnect([fr EXCEPT !["mon"].pc = "idle"], "check_timeout")
          ELSE /\ fr' = [fr EXCEPT !["mon"].pc = "idle"]
               /\ m' = [pc |-> "idle", branch |-> "none", sample |-> NoSample]
               /\ UNCHANGED <<is_connected, is_reconnecting, tasks, closed>>
    /\ UNCHANGED <<client, phase, is_shutting_down, reconnect_task,
                   s, extcalls, sd>>

(***************************************************************************)
(* Shutdown: graceful_shutdown stops the background tasks, calls stop()    *)
(* and cancels the tasks that are left.                                    *)
(***************************************************************************)
\* background_task_manager.stop_all_tasks(); discord_client.stop() up to its
\* await of client.close().  run_adapter creates the start() task first and
\* then sleeps, so start() has taken its first step by then.
StopBegin ==
    /\ sd = "idle"
    /\ s.pc # "init"
    /\ m' = [pc |-> "stopped", branch |-> "none", sample |-> NoSample]
    /\ fr' = [fr EXCEPT !["mon"].pc = "idle"]
    /\ is_shutting_down' = TRUE
    /\ IF ~closed[client]
          THEN /\ closed' = [closed EXCEPT ![client] = TRUE]
               /\ sd' = "closing"
          ELSE /\ sd' = "stopped"
               /\ UNCHANGED closed
    /\ UNCHANGED <<client, phase, is_connected, is_reconnecting,
                   reconnect_task, tasks, s, extcalls>>

\* stop() returns (or its 10 second limit expires)
StopClosed ==
    /\ sd = "closing"
    /\ sd' = "stopped"
    /\ UNCHANGED <<client, closed, phase, is_connected, is_shutting_down,
                   is_reconnecting, reconnect_task, tasks, s, fr, extcalls, m>>

\* task.cancel() for every task that is not done.  The event loop runs
\* callbacks in the order they were scheduled, so a task created earlier has
\* taken its first step by now.
CancelAll ==
    /\ sd = "stopped"
    /\ s.pc # "init"
    /\ \A t \in TaskIds : tasks[t].pc # "created"
    /\ s' = IF s.pc \in {"connecting", "sleep", "closing"} THEN [s EXCEPT !.cancel = TRUE] ELSE s
    /\ tasks' = [t \in TaskIds |->
                    IF tasks[t].pc \in {"connecting", "sleep", "closing"}
                       THEN [tasks[t] EXCEPT !.cancel = TRUE] ELSE tasks[t]]
    /\ sd' = "cancelled"
    /\ UNCHANGED <<client, closed, phase, is_connected, is_shutting_down,
                   is_reconnecting, reconnect_task, fr, extcalls, m>>

(***************************************************************************)
(* Specifications                                                          *)
(***************************************************************************)
(***************************************************************************)
(* The content builder (DiscordContentBuilder.build).  A segment is a      *)
(* record: type, data (the payload of a leaf) and sub (the children of a   *)
(* seglist).  Trees are lists of leaves and of lists of leaves.            *)
(***************************************************************************)
MaxChildren == 2

MaxNested == 1

Leaf(type, data) == [type |-> type, data |-> data, sub |-> <<>>]

SegList(children) == [type |-> "seglist", data |-> "", sub |-> children]

Leaves ==
    {Leaf("text", d) : d \in {"", "a", "b"}}
        \cup {Leaf("reply", "9"), Leaf("thread_context", "3"), Leaf("image", "img")}

SeqsUpTo(S, n) == UNION {[1..k -> S] : k \in 0..n}

NestedLists == {SegList(l) : l \in SeqsUpTo(Leaves, MaxNested)}

Segments ==
    Leaves \cup NestedLists
           \cup {SegList(l) : l \in SeqsUpTo(Leaves \cup NestedLists, MaxChildren)}

IsTextType_AlsoReply(type) == type \in {"text", "reply"}

\* seg.type == "text": the segments whose payload is appended as it is
IsTextType(type) == type = "text"

RECURSIVE ContentParts(_), ContentPartsOfList(_)

\* process(): what one segment appends to content_parts
ContentParts(seg) ==
    IF seg.type = "thread_context" THEN <<>>
    ELSE IF seg.type = "seglist" THEN ContentPartsOfList(seg.sub)
    ELSE IF IsTextType(seg.type) THEN <<seg.data>>
    ELSE IF seg.type = "image"
         THEN IF seg.data = "" THEN <<"[image failed]">> ELSE <<>>
    ELSE <<>>

ContentPartsOfList(sub_segments) ==
    IF sub_segments = <<>> THEN <<>>
    ELSE ContentParts(Head(sub_segments)) \o ContentPartsOfList(Tail(sub_segments))

RECURSIVE BuildFiles(_), BuildFilesOfList(_)

\* process(): what one segment appends to files
BuildFiles(seg) ==
    IF seg.type = "thread_context" THEN <<>>
    ELSE IF seg.type = "seglist" THEN BuildFilesOfList(seg.sub)
    ELSE IF seg.type = "image" /\ seg.data # "" THEN <<seg.data>>
    ELSE <<>>

BuildFilesOfList(sub_segments) ==
    IF sub_segments = <<>> THEN <<>>
    ELSE BuildFiles(Head(sub_segments)) \o BuildFilesOfList(Tail(sub_segments))

RECURSIVE JoinNewline(_)

\* "\n".join(parts)
JoinNewline(parts) ==
    IF parts = <<>> THEN ""
    ELSE IF Len(parts) = 1 THEN parts[1]
    ELSE parts[1] \o "\n" \o JoinNewline(Tail(parts))

\* (part for part in content_parts if part)
KeptParts(parts) == SelectSeq(parts, LAMBDA part : part # "")

\* build(): the text, whether None is returned in its place, and the files
Build(seg) ==
    LET content_text == JoinNewline(KeptParts(ContentParts(seg)))
    IN [content |-> content_text,
        is_none |-> content_text = "",
        files   |-> BuildFiles(seg)]

BuildContent ==
    /\ built.pc = "idle"
    /\ \E seg \in Segments :
          built' = [pc |-> "built", seg |-> seg, result |-> Build(seg)]
    /\ UNCHANGED <<supVars, routeVars, dispatch, hostVars>>

BuildReturns ==
    /\ built.pc = "built"
    /\ built' = [pc |-> "idle"]
    /\ UNCHANGED <<supVars, routeVars, dispatch, hostVars>>


(***************************************************************************)
(* The send pipeline (_send_with_length_check, _send_long_message and the  *)
(* two splitters).  A text is kept as its lines, a line as its length and  *)
(* what it holds: text, white space only, or a code fence.  A string built *)
(* by a splitter is a sequence of units joined by newlines; a unit is a    *)
(* stretch of a line of the content (line > 0) or text the splitter adds   *)
(* itself (line = 0).                                                      *)
(***************************************************************************)
MaxLines == 3

MAX_MESSAGE_LENGTH == 2000

MAX_FILES_PER_MESSAGE == 10

LineShapes ==
    {[len |-> 0, kind |-> "space"], [len |-> 3, kind |-> "space"],
     [len |-> 1, kind |-> "text"], [len |-> 1990, kind |-> "text"],
     [len |-> 4000, kind |-> "text"], [len |-> 3, kind |-> "fence"]}

\* content.split("\n") of every text of up to MaxLines lines
Contents == UNION {[1..n -> LineShapes] : n \in 1..MaxLines}

Unit(line, from, len, kind) ==
    [line |-> line, from |-> from, len |-> len, kind |-> kind]

LineUnit(content, i) == Unit(i, 0, content[i].len, content[i].kind)

RECURSIVE SumLen(_)

SumLen(str) == IF str = <<>> THEN 0 ELSE Head(str).len + SumLen(Tail(str))

\* len(string)
StrLen(str) == IF str = <<>> THEN 0 ELSE SumLen(str) + Len(str) - 1

\* a + "\n" + b
JoinLine(a, b) == (IF a = <<>> THEN <<Unit(0, 0, 0, "space")>> ELSE a) \o b

\* f"{current}\n{line}" if current else line
TestContent(current, line) ==
    IF StrLen(current) > 0 THEN JoinLine(current, <<line>>) ELSE <<line>>

\* "```" in content
HasFence(content) == \E i \in 1..Len(content) : content[i].kind = "fence"

\* not part.strip()
IsBlank(str) == \A i \in 1..Len(str) : str[i].kind = "space"

RECURSIVE ForcedCuts(_, _, _, _)

\* while len(line) > max_len: parts.append(line[:max_len]); line = line[max_len:]
ForcedCuts(line, from, rest, max_len) ==
    IF rest > max_len
    THEN <<<<Unit(line.line, from, max_len, line.kind)>>>>
             \o ForcedCuts(line, from + max_len, rest - max_len, max_len)
    ELSE <<>>

\* What is left of the line after the forced cuts
CutRemainder(line, max_len) ==
    LET cuts == (line.len - 1) \div max_len
    IN Unit(line.line, cuts * max_len, line.len - cuts * max_len, line.kind)

\* One round of the loop of _split_by_lines
SplitByLinesStep(st, line, max_len) ==
    IF line.len > max_len
    THEN [parts   |-> (IF StrLen(st.current) > 0
                       THEN Append(st.parts, st.current) ELSE st.parts)
                          \o ForcedCuts(line, 0, line.len, max_len),
          current |-> <<CutRemainder(line, max_len)>>]
    ELSE IF StrLen(TestContent(st.current, line)) > max_len
         THEN [parts |-> Append(st.parts, st.current), current |-> <<line>>]
         ELSE [parts |-> st.parts, current |-> TestContent(st.current, line)]

RECURSIVE SplitByLinesFrom(_, _, _, _)

SplitByLinesFrom(content, i, st, max_len) ==
    IF i > Len(content)
    THEN IF StrLen(st.current) > 0 THEN Append(st.parts, st.current) ELSE st.parts
    ELSE SplitByLinesFrom(content, i + 1,
                          SplitByLinesStep(st, LineUnit(content, i), max_len), max_len)

SplitByLines(content, max_len) ==
    SplitByLinesFrom(content, 1, [parts |-> <<>>, current |-> <<>>], max_len)

\* One round of the loop of _split_preserve_codeblocks
SplitCodeblocksStep(st, line, max_len) ==
    LET fence == line.kind = "fence"
        in_codeblock == IF fence THEN ~st.in_codeblock ELSE st.in_codeblock
        codeblock_start == IF fence /\ ~st.in_codeblock
                           THEN Unit(0, 0, line.len, "fence")
                           ELSE st.codeblock_start
        test_content == TestContent(st.current, line)
    IN IF StrLen(test_content) > max_len
       THEN IF in_codeblock
            THEN [parts |-> Append(st.parts,
                                   JoinLine(st.current, <<Unit(0, 0, 3, "fence")>>)),
                  current |-> JoinLine(<<codeblock_start>>, <<line>>),
                  in_codeblock |-> in_codeblock,
                  codeblock_start |-> codeblock_start]
            ELSE [parts |-> IF StrLen(st.current) > 0
                            THEN Append(st.parts, st.current) ELSE st.parts,
                  current |-> <<line>>,
                  in_codeblock |-> in_codeblock,
                  codeblock_start |-> codeblock_start]
       ELSE [parts |-> st.parts, current |-> test_content,
             in_codeblock |-> in_codeblock,
             codeblock_start |-> codeblock_start]

RECURSIVE SplitCodeblocksFrom(_, _, _, _)

SplitCodeblocksFrom(content, i, st, max_len) ==
    IF i > Len(content)
    THEN IF StrLen(st.current) > 0 THEN Append(st.parts, st.current) ELSE st.parts
    ELSE SplitCodeblocksFrom(content, i + 1,
                             SplitCodeblocksStep(st, LineUnit(content, i), max_len),
                             max_len)

SplitPreserveCodeblocks(content, max_len) ==
    SplitCodeblocksFrom(content, 1,
                        [parts |-> <<>>, current |-> <<>>, in_codeblock |-> FALSE,
                         codeblock_start |-> Unit(0, 0, 0, "space")],
                        max_len)

\* _send_long_message: the parts of the content
LongParts(content) ==
    IF HasFence(content)
    THEN SplitPreserveCodeblocks(content, MAX_MESSAGE_LENGTH - 10)
    ELSE SplitByLines(content, MAX_MESSAGE_LENGTH - 10)

\* The text of the content as one string
WholeText(content) == [i \in 1..Len(content) |-> LineUnit(content, i)]

\* One channel.send that is due: its text (<<>> for none), files and reference
Send(kind, index, text, files, reference) ==
    [kind |-> kind, index |-> index, text |-> text, len |-> StrLen(text),
     files |-> files, reference |-> reference]

RECURSIVE PartSends(_, _, _)

\* _send_long_message: one _send_single_part for each part that is not blank,
\* the reference on the part of index 0
PartSends(parts, index, reference) ==
    IF index > Len(parts) THEN <<>>
    ELSE (IF IsBlank(parts[index]) THEN <<>>
          ELSE <<Send("part", index, parts[index], <<>>, reference /\ index = 1)>>)
             \o PartSends(parts, index + 1, reference)

FileList_Untruncated(files) == files

\* file_list[:MAX_FILES_PER_MESSAGE]
FileList(files) ==
    IF Len(files) > MAX_FILES_PER_MESSAGE
    THEN SubSeq(files, 1, MAX_FILES_PER_MESSAGE) ELSE files

\* _send_with_length_check: the sends it makes, in order, if none fails
PlannedSends(content, files, reference) ==
    LET text  == WholeText(content)
        short == StrLen(text) > 0 /\ StrLen(text) <= MAX_MESSAGE_LENGTH
        first == IF files = <<>> THEN <<>>
                 ELSE <<Send("files", 0, IF short THEN text ELSE <<>>,
                             FileList(files), reference)>>
        left  == StrLen(text) > 0 /\ ~(files # <<>> /\ short)
        ref   == reference /\ files = <<>>
    IN first \o (IF ~left THEN <<>>
                 ELSE IF StrLen(text) <= MAX_MESSAGE_LENGTH
                      THEN <<Send("text", 0, text, <<>>, ref)>>
                      ELSE PartSends(LongParts(content), 1, ref))

FileCounts == {0, 1, 10, 11}

SendWithLengthCheck ==
    /\ dispatch.pc = "idle"
    /\ \E content \in Contents, n \in FileCounts, reference \in BOOLEAN :
          dispatch' = [pc |-> "sending", content |-> content,
                       files |-> [i \in 1..n |-> i], reference |-> reference,
                       due |-> PlannedSends(content, [i \in 1..n |-> i], reference),
                       sends |-> <<>>, failed |-> 0]
    /\ UNCHANGED <<supVars, routeVars, built, hostVars>>

AfterFailure_Abort(due) == <<>>

\* What is still due after a failed send: _send_single_part swallows the
\* error of a part, any other failed send ends _send_with_length_check
AfterFailure(due) ==
    IF Head(due).kind = "part" THEN Tail(due) ELSE <<>>

\* One await channel.send(...) returns or raises HTTPException
ChannelSend ==
    /\ dispatch.pc = "sending" /\ dispatch.due # <<>>
    /\ \E ok \in BOOLEAN :
          dispatch' = [dispatch EXCEPT
                          !.sends = Append(@, Head(dispatch.due)),
                          !.due = IF ok THEN Tail(@) ELSE AfterFailure(@),
                          !.failed = IF ok \/ @ # 0 THEN @
                                     ELSE Len(dispatch.sends) + 1]
    /\ UNCHANGED <<supVars, routeVars, built, hostVars>>

SendReturns ==
    /\ dispatch.pc = "sending" /\ dispatch.due = <<>>
    /\ dispatch' = [pc |-> "idle"]
    /\ UNCHANGED <<supVars, routeVars, built, hostVars>>

\* A step of the supervisor: the routing state is not touched
Sup(A) == A /\ UNCHANGED <<routeVars, pipeVars, hostVars>>

Gateway ==
    \E c \in Clients : OnReady(c) \/ OnResume(c) \/ OnDisconnect(c)

StartLoop ==
    StartBegin \/ StartConnectEnds \/ StartSleepDone \/ StartResetClosed \/ StartCancelled

ReconnectTask ==
    \E t \in TaskIds : \/ TaskRun(t)
                       \/ TaskConnectEnds(t)
                       \/ TaskSleepDone(t)
                       \/ TaskResetClosed(t)
                       \/ TaskCancelled(t)

ForceReconnectSteps ==
    \E c \in Callers : FRResume(c) \/ FRSleepDone(c) \/ FRResetClosed(c)

Monitor ==
    MonBefore \/ MonTick \/ MonProbeRuns \/ MonProbeDone \/ MonProbeTimeout \/ MonTimeout

Shutdown ==
    StopBegin \/ StopClosed \/ CancelAll

\* The adapter as main.py runs it: the monitor is the only caller of
\* force_reconnect.
NextAdapter ==
    \/ Gateway /\ UNCHANGED <<routeVars, pipeVars, hostVars>>
    \/ StartLoop /\ UNCHANGED <<routeVars, pipeVars, hostVars>>
    \/ ReconnectTask /\ UNCHANGED <<routeVars, pipeVars, hostVars>>
    \/ ForceReconnectSteps /\ UNCHANGED <<routeVars, pipeVars, hostVars>>
    \/ Monitor /\ UNCHANGED <<routeVars, pipeVars, hostVars>>
    \/ Shutdown /\ shutdown_event' = TRUE
                /\ UNCHANGED <<routeVars, pipeVars, handlers, is_running, stale,
                               inbound, queueVars>>

\* The adapter with a higher-level component calling force_reconnect as well.
Next ==
    NextAdapter \/ (ExtForceReconnect /\ UNCHANGED <<routeVars, pipeVars, hostVars>>)

Spec == Init /\ [][Next]_vars

AdapterSpec == Init /\ [][NextAdapter]_vars

\* What the event loop guarantees: timers expire, tasks that are ready run,
\* and awaits with a time limit end.  Nothing is assumed of the gateway.
FairAdapterSpec ==
    /\ AdapterSpec
    /\ WF_vars(Sup(StartBegin)) /\ WF_vars(Sup(StartSleepDone))
    /\ WF_vars(Sup(StartCancelled))
    /\ \A t \in TaskIds : /\ WF_vars(Sup(TaskRun(t)))
                          /\ WF_vars(Sup(TaskSleepDone(t)))
                          /\ WF_vars(Sup(TaskCancelled(t)))
    /\ \A c \in Callers : WF_vars(Sup(FRResume(c))) /\ WF_vars(Sup(FRSleepDone(c)))
    /\ WF_vars(Sup(MonBefore)) /\ WF_vars(Sup(MonTick))
    /\ WF_vars(Sup(MonProbeRuns)) /\ WF_vars(Sup(MonProbeDone))
    /\ WF_vars(Sup(StopClosed))

\* The routing of messages over a gateway session that comes and goes
Session ==
    \/ StartBegin
    \/ \E c \in Clients : OnReady(c)
    \/ \E c \in Clients : OnResume(c)
    \/ \E c \in Clients : OnDisconnect(c)

RoutingNext ==
    \/ Session /\ UNCHANGED <<routeVars, pipeVars, hostVars>>
    \/ RouterDelivers /\ UNCHANGED <<pipeVars, hostVars>>
    \/ HandleMessage /\ UNCHANGED <<pipeVars, hostVars>>
    \/ HandleDiscordMessage /\ UNCHANGED <<pipeVars, hostVars>>
    \/ HandlerReturns /\ UNCHANGED <<pipeVars, hostVars>>
    \/ ThreadDeleted /\ UNCHANGED <<pipeVars, hostVars>>

RoutingSpec ==
    RoutingInit /\ [][RoutingNext]_vars

\* The content builder applied to one segment tree after another
BuilderNext ==
    BuildContent \/ BuildReturns

BuilderSpec ==
    Init /\ [][BuilderNext]_vars

\* The send pipeline applied to one content after another
DispatchNext ==
    SendWithLengthCheck \/ ChannelSend \/ SendReturns

DispatchSpec ==
    Init /\ [][DispatchNext]_vars

(***************************************************************************)
(* The adapter as the plugin host runs it (src/plugin.py): the supervisor  *)
(* and the monitor as above, and a ReactionEventTask that start_all_tasks  *)
(* starts once.                                                            *)
(***************************************************************************)
\* _setup_client: the events the client it builds has a handler for;
\* registered are those of the client it replaces.
SetupClient(registered) == ClientEvents

\* The step rebuilds the client if it assigns self.client
ClientRebuilt == client' # client

\* A step of the supervisor under the plugin host: _reset_client calls
\* _setup_client whenever it replaces self.client.
Plug(A) ==
    /\ A
    /\ handlers' = IF ClientRebuilt THEN SetupClient(handlers) ELSE handlers
    /\ UNCHANGED <<routeVars, pipeVars, is_running, stale, flowVars>>

\* ReactionEventTask.start, called by start_all_tasks two seconds after the
\* start() task was created
ReactionEventTaskStart ==
    /\ sd = "idle"
    /\ s.pc # "init"
    /\ ~is_running
    /\ handlers' = handlers \cup ReactionEvents
    /\ is_running' = TRUE
    /\ UNCHANGED <<supVars, routeVars, pipeVars, stale, flowVars>>

\* stop_all_tasks stops the ReactionEventTask too: ReactionEventTask.stop
PluginStopBegin ==
    /\ StopBegin
    /\ is_running' = FALSE
    /\ shutdown_event' = TRUE
    /\ UNCHANGED <<routeVars, pipeVars, handlers, stale, inbound, queueVars>>

PluginNext ==
    \/ Plug(Gateway)
    \/ Plug(StartLoop)
    \/ Plug(ReconnectTask)
    \/ Plug(ForceReconnectSteps)
    \/ Plug(Monitor)
    \/ PluginStopBegin
    \/ Plug(StopClosed)
    \/ Plug(CancelAll)
    \/ ReactionEventTaskStart

PluginSpec == Init /\ [][PluginNext]_vars

(***************************************************************************)
(* Message routing while start() retries: _reset_client replaces the       *)
(* client, the routing manager keeps its caches.  A channel handle belongs *)
(* to the client whose gateway state or HTTP session produced it.          *)
(***************************************************************************)
\* A step of start(): when it replaces self.client, every handle the
\* routing manager has cached belongs to a replaced client from then on
\* (neither _reset_client nor _setup_client touches _channel_cache).
Retry(A) ==
    /\ A
    /\ stale' = IF ClientRebuilt THEN channel_cache ELSE stale
    /\ UNCHANGED <<routeVars, pipeVars, handlers, is_running, flowVars>>

ReroutingNext ==
    \/ Retry(Gateway)
    \/ Retry(StartBegin)
    \/ Retry(StartConnectEnds)
    \/ Retry(StartSleepDone)
    \/ Retry(StartResetClosed)
    \/ RouterDelivers /\ UNCHANGED <<pipeVars, hostVars>>
    \/ HandleMessage /\ UNCHANGED <<pipeVars, hostVars>>
    \/ HandlerReturns /\ UNCHANGED <<pipeVars, hostVars>>

ReroutingSpec == Init /\ [][ReroutingNext]_vars

(***************************************************************************)
(* An inbound message and the answer of the core.  handle_discord_message  *)
(* awaits router.send_message and changes the context mapping afterwards;  *)
(* the answer comes in through the router's receive loop, another task.    *)
(***************************************************************************)
\* The group the converted message carries: a thread reports its parent
\* channel under inheritance, its own id otherwise.
GroupOf(ch) == IF ch \in Threads /\ inherit THEN ParentOf(ch) ELSE ch

\* handle_discord_message for a message posted in channel ch, up to
\* `await self.router.send_message(maim_message)`
InboundForward ==
    \E ch \in ChannelIds \ deleted :
        /\ inbound.pc = "idle"
        /\ GatewayUp
        /\ inbound' = [pc |-> "forwarding", channel |-> ch, replied |-> FALSE]
        /\ UNCHANGED <<supVars, routeVars, pipeVars, handlers, is_running, stale,
                       shutdown_event, queueVars>>

\* router.send_message returns (ok) or raises: the store is brought up to
\* date after a send that succeeded, then the handler returns.
InboundResume ==
    \E ok \in BOOLEAN :
        /\ inbound.pc = "forwarding"
        /\ thread_context_map' =
              IF ok /\ inherit
              THEN IF inbound.channel \in Threads
                   THEN UpdateThreadContext(thread_context_map,
                                            Str(ParentOf(inbound.channel)),
                                            Str(inbound.channel))
                   ELSE ClearThreadContext(thread_context_map, Str(inbound.channel))
              ELSE thread_context_map
        /\ inbound' = [inbound EXCEPT !.pc = IF ok /\ ~inbound.replied
                                               THEN "forwarded" ELSE "idle"]
        /\ UNCHANGED <<channel_cache, deleted, inherit, last>>
        /\ UNCHANGED <<supVars, pipeVars, handlers, is_running, stale, shutdown_event,
                       queueVars>>

\* The core answers the message it was sent: the router hands the answer,
\* addressed to the group of that message, to the registered handler.
CoreResponds ==
    /\ inbound.pc \in {"forwarding", "forwarded"}
    /\ ~inbound.replied
    /\ last = NoEvent
    /\ last' \in {msg \in Messages : msg.group_id = Str(GroupOf(inbound.channel))}
    /\ inbound' = IF inbound.pc = "forwarding"
                     THEN [inbound EXCEPT !.replied = TRUE]
                     ELSE [inbound EXCEPT !.pc = "idle", !.replied = TRUE]
    /\ UNCHANGED <<thread_context_map, channel_cache, deleted, inherit>>
    /\ UNCHANGED <<supVars, pipeVars, handlers, is_running, stale, shutdown_event,
                   queueVars>>

\* The handler of the answer returns
AnswerHandled ==
    /\ HandlerReturns
    /\ inbound' = IF inbound.pc = "idle" THEN [inbound EXCEPT !.replied = FALSE]
                     ELSE inbound
    /\ UNCHANGED <<pipeVars, handlers, is_running, stale, shutdown_event, queueVars>>

ConversationNext ==
    \/ Session /\ UNCHANGED <<routeVars, pipeVars, hostVars>>
    \/ InboundForward
    \/ InboundResume
    \/ CoreResponds
    \/ HandleMessage /\ UNCHANGED <<pipeVars, hostVars>>
    \/ AnswerHandled

ConversationSpec == RoutingInit /\ [][ConversationNext]_vars

(***************************************************************************)
(* The standalone runner (run_adapter in src/main.py): it waits until the  *)
(* shutdown event is set or one of its tasks, start() among them, is done; *)
(* then it cancels the tasks that are left, waits for them and calls       *)
(* graceful_shutdown.                                                      *)
(***************************************************************************)
\* signal_handler: SIGINT, SIGTERM or SIGBREAK arrives
SignalReceived ==
    /\ sd = "idle"
    /\ ~shutdown_event
    /\ shutdown_event' = TRUE
    /\ UNCHANGED <<supVars, routeVars, pipeVars, handlers, is_running, stale, inbound,
                   queueVars>>

\* The task of start() is done
StartDone == s.pc \in {"returned", "raised", "cancelled"}

\* asyncio.wait(all_tasks, return_when=FIRST_COMPLETED) returns
WaitReturns == shutdown_event \/ StartDone

\* asyncio.wait has returned and start() is pending: task.cancel()
RunnerCancelsPending ==
    /\ sd = "idle"
    /\ WaitReturns
    /\ s.pc \in {"connecting", "sleep", "closing"}
    /\ ~s.cancel
    /\ s' = [s EXCEPT !.cancel = TRUE]
    /\ UNCHANGED <<client, closed, phase, is_connected, is_shutting_down,
                   is_reconnecting, reconnect_task, tasks, fr, extcalls, m, sd>>
    /\ UNCHANGED <<routeVars, pipeVars, hostVars>>

\* asyncio.gather(*pending) is over: `finally: await graceful_shutdown()`
RunnerStopBegin ==
    /\ WaitReturns
    /\ StartDone
    /\ StopBegin
    /\ shutdown_event' = TRUE
    /\ UNCHANGED <<routeVars, pipeVars, handlers, is_running, stale, inbound, queueVars>>

RunnerNext ==
    \/ Sup(Gateway)
    \/ Sup(StartLoop)
    \/ Sup(ReconnectTask)
    \/ Sup(ForceReconnectSteps)
    \/ Sup(Monitor)
    \/ SignalReceived
    \/ RunnerCancelsPending
    \/ RunnerStopBegin
    \/ Sup(StopClosed)
    \/ Sup(CancelAll)

RunnerSpec == Init /\ [][RunnerNext]_vars

(***************************************************************************)
(* The way of an inbound message in the standalone runner: _on_message     *)
(* puts it into the queue of the client manager, discord_message_collector *)
(* moves it to the main queue, message_process takes it from there and     *)
(* calls the handler.  Messages are numbered in the order _on_message      *)
(* accepts them.  start() retries meanwhile and replaces the client.       *)
(***************************************************************************)
MaxMessages == 3

\* Variant of QueueAcrossRebuild: the new client starts with an empty queue.
QueueAcrossRebuild_Fresh(q) == <<>>

\* The queue of the client manager when the client is replaced: __init__
\* creates it once, _reset_client and _setup_client do not assign it.
QueueAcrossRebuild(q) == q

\* A step of start() next to the message pipeline
Rebuilds(A) ==
    /\ A
    /\ client_queue' = IF ClientRebuilt THEN QueueAcrossRebuild(client_queue)
                                          ELSE client_queue
    /\ UNCHANGED <<routeVars, pipeVars, handlers, is_running, stale, inbound,
                   shutdown_event, main_queue, collector, processor, handed, accepted>>

\* Some client has a session that delivers events
Connected ==
    \E c \in Clients : ~closed[c] /\ phase[c] = "ready" /\ Awaited(c)

\* on_message -> _on_message: a message of the bot itself or one the lists
\* do not allow is dropped, any other is put into the queue.
OnMessage ==
    \E own \in BOOLEAN, allowed \in BOOLEAN :
        /\ Connected
        /\ accepted < MaxMessages
        /\ IF ~own /\ allowed
              THEN /\ accepted' = accepted + 1
                   /\ client_queue' = Append(client_queue, accepted + 1)
              ELSE UNCHANGED <<accepted, client_queue>>
        /\ UNCHANGED <<supVars, routeVars, pipeVars, handlers, is_running, stale,
                       inbound, shutdown_event, main_queue, collector, processor,
                       handed>>

\* discord_message_collector: the loop condition holds, the queue is not
\* empty: discord_client.message_queue.get()
CollectorGet ==
    /\ ~shutdown_event
    /\ collector = 0
    /\ client_queue # <<>>
    /\ collector' = Head(client_queue)
    /\ client_queue' = Tail(client_queue)
    /\ UNCHANGED <<supVars, routeVars, pipeVars, handlers, is_running, stale,
                   inbound, shutdown_event, main_queue, processor, handed, accepted>>

\* discord_message_collector: message_queue.put(message)
CollectorPut ==
    /\ collector # 0
    /\ main_queue' = Append(main_queue, collector)
    /\ collector' = 0
    /\ UNCHANGED <<supVars, routeVars, pipeVars, handlers, is_running, stale,
                   inbound, shutdown_event, client_queue, processor, handed, accepted>>

\* message_process: message_queue.get() gives a message within its second;
\* handle_discord_message is called with it
ProcessGet ==
    /\ processor = "waiting"
    /\ main_queue # <<>>
    /\ handed' = Append(handed, Head(main_queue))
    /\ main_queue' = Tail(main_queue)
    /\ processor' = "handling"
    /\ UNCHANGED <<supVars, routeVars, pipeVars, handlers, is_running, stale,
                   inbound, shutdown_event, client_queue, collector, accepted>>

\* message_process: the handler has returned or raised; the loop condition
\* is read again
ProcessDone ==
    /\ processor = "handling"
    /\ processor' = IF shutdown_event THEN "stopped" ELSE "waiting"
    /\ UNCHANGED <<supVars, routeVars, pipeVars, handlers, is_running, stale,
                   inbound, shutdown_event, client_queue, main_queue, collector,
                   handed, accepted>>

\* message_process: the wait for a message times out and the loop condition
\* fails
ProcessStops ==
    /\ processor = "waiting"
    /\ shutdown_event
    /\ processor' = "stopped"
    /\ UNCHANGED <<supVars, routeVars, pipeVars, handlers, is_running, stale,
                   inbound, shutdown_event, client_queue, main_queue, collector,
                   handed, accepted>>

PipelineNext ==
    \/ Rebuilds(Gateway)
    \/ Rebuilds(StartBegin)
    \/ Rebuilds(StartConnectEnds)
    \/ Rebuilds(StartSleepDone)
    \/ Rebuilds(StartResetClosed)
    \/ OnMessage
    \/ CollectorGet
    \/ CollectorPut
    \/ ProcessGet
    \/ ProcessDone
    \/ ProcessStops
    \/ SignalReceived

PipelineSpec == Init /\ [][PipelineNext]_vars

(***************************************************************************)
(* Properties                                                              *)
(***************************************************************************)
\* Reconnect tasks that exist, are not done and were not cancelled
RunningTasks ==
    {t \in TaskIds : tasks[t].pc \in {"created", "connecting", "sleep", "closing"}
                     /\ ~tasks[t].cancel}

\* C1: whatever way calls of force_reconnect interleave, at most one
\* reconnect task is running and not cancelled at any instant.
C1_AtMostOneReconnectTask ==
    Cardinality(RunningTasks) <= 1

\* Two reconnect tasks have been created by two calls of force_reconnect and
\* the second one is running.
C1_Witness ==
    /\ reconnect_task = 2
    /\ tasks[1].pc = "none"
    /\ RunningTasks = {2}

\* The coroutine is resetting the client or waits for a connect on a client
\* that nobody has closed.
StartEffort ==
    s.pc = "closing" \/ (s.pc = "connecting" /\ ~closed[s.cl])

TaskEffort(t) ==
    tasks[t].pc = "closing" \/ (tasks[t].pc = "connecting" /\ ~closed[tasks[t].cl])

\* C2: the start() loop and a reconnect task are never both resetting the
\* client or attempting to connect at the same time.
C2_OneConnectEffort ==
    ~(StartEffort /\ \E t \in TaskIds : TaskEffort(t))

\* The probes C3 speaks of: ready=false, or a latency that is missing, NaN,
\* infinite, negative or at least 10 seconds.
ProbeFailed(smp) ==
    \/ ~smp.ready
    \/ smp.lat.k \in {"None", "NaN", "Inf", "NegInf"}
    \/ smp.lat.k = "num" /\ (smp.lat.v < 0 \/ smp.lat.v >= 10)

\* C3: when the health check judges a failed probe, the supervisor is not
\* connected afterwards, and if it was connected a reconnect is under way:
\* the check is inside force_reconnect, or force_reconnect returned at once
\* because a reconnect was in progress already.  is_connected is still
\* false when the call of force_reconnect returns (the 30 second limit of
\* the monitor, which cancels the call, is another matter).
C3_FailedProbeReconnects ==
    [][/\ (m.pc = "sampled" /\ m'.pc \in {"idle", "fr"} /\ ProbeFailed(m.sample))
          => /\ ~is_connected'
             /\ is_connected
                  => /\ is_reconnecting'
                     /\ \/ m'.pc = "fr" /\ m'.branch \in {"latency", "not_ready"}
                            /\ fr'["mon"].pc # "idle"
                        \/ m'.pc = "idle" /\ is_reconnecting
       /\ (/\ m.pc = "fr" /\ m.branch \in {"latency", "not_ready"} /\ m'.pc = "idle"
           /\ fr["mon"].pc \in {"closing", "sleep"} \/ client' # client)
          => ~is_connected']_vars

\* A check that saw ready=true with an abnormal latency while connected has
\* called force_reconnect, which is under way.
C3_Witness ==
    /\ m.pc = "fr"
    /\ m.branch = "latency"
    /\ fr["mon"].pc = "closing"
    /\ is_reconnecting
    /\ ~is_connected

\* An unsolicited disconnect was received: the current client is open, its
\* session is down, the supervisor neither reconnects nor shuts down, and
\* the connection monitor is running.
Dropped ==
    /\ phase[client] = "down"
    /\ ~closed[client]
    /\ ~is_connected
    /\ ~is_reconnecting
    /\ ~is_shutting_down
    /\ m.pc \notin {"before", "stopped"}

\* C4: after an unsolicited disconnect the supervisor eventually initiates a
\* reconnect through force_reconnect (unless the session comes back,
\* shutdown begins, or the client is closed or replaced by the start() loop
\* first).
C4_DisconnectLeadsToReconnect ==
    Dropped ~> \/ is_reconnecting
               \/ is_connected
               \/ is_shutting_down
               \/ closed[client]
               \/ phase[client] # "down"

\* client.start(token) is invoked on a client in this step
ConnectStarted ==
    \E c \in Clients : phase[c] \in {"new", "ended"} /\ phase'[c] = "login"

\* C5: once stop() has set is_shutting_down, no connect attempt is started.
C5_NoConnectAfterStop ==
    [][is_shutting_down => ~ConnectStarted]_vars

\* C6: an authentication failure in start() is raised to the caller without
\* a retry and without touching the reconnect state; start() stays ended,
\* and when the failure was that of the initial connect the supervisor is
\* never reconnecting and no reconnect task exists.
C6_AuthFailureIsFatal ==
    /\ [][/\ (s.pc = "connecting" /\ s'.pc # "connecting" /\ s'.err = "LoginFailure")
             => /\ s'.pc = "raised"
                /\ s'.attempt = s.attempt
                /\ UNCHANGED <<client, is_reconnecting, reconnect_task, tasks, fr>>
          /\ s.pc = "raised" => s'.pc = "raised"]_vars
    /\ [](s.pc = "raised" /\ s.attempt = 0
             => /\ ~is_reconnecting
                /\ reconnect_task = 0
                /\ \A t \in TaskIds : tasks[t].pc = "none")

\* start() has raised the authentication failure of its first attempt.
C6_Witness ==
    /\ s.pc = "raised"
    /\ s.err = "LoginFailure"
    /\ s.attempt = 0

\* C7: the reconnect task stops after a connect attempt only on an
\* authentication failure, on cancellation or on shutdown; every other
\* failure is followed by the delay and another attempt.
C7_OnlyAuthStopsRetry ==
    [][\A t \in TaskIds :
          (tasks[t].pc = "connecting" /\ tasks'[t].pc # "connecting")
             => \/ tasks'[t].pc = "sleep"
                \/ tasks'[t].pc = "done"
                   /\ tasks'[t].err \in {"LoginFailure", "cancelled", "shutdown"}]_vars

\* C8: a call of force_reconnect while is_reconnecting or is_shutting_down is
\* set changes neither the client handle, the reconnect task, is_connected
\* nor is_reconnecting, and starts nothing.
C8_NoOpWhenBusy ==
    [][(extcalls' # extcalls /\ (is_reconnecting \/ is_shutting_down))
          => UNCHANGED <<client, closed, phase, is_connected, is_reconnecting,
                         reconnect_task, tasks, fr>>]_vars

\* The outside caller has called force_reconnect and is not inside it,
\* while the monitor's call is closing the client that start() connected
\* at its first attempt: the outside call found is_reconnecting set.
C8_Witness ==
    /\ extcalls = 1
    /\ fr["ext"].pc = "idle"
    /\ fr["mon"].pc = "closing"
    /\ is_reconnecting
    /\ s.pc = "connecting"
    /\ s.attempt = 0
    /\ reconnect_task = 0

\* C9: when the connect attempt of a reconnect task has succeeded, the
\* supervisor is connected and no longer reconnecting.
C9_ConnectedNotReconnecting ==
    \A t \in TaskIds :
        (/\ tasks[t].pc = "connecting"
         /\ tasks[t].cl = client
         /\ phase[client] = "ready"
         /\ ~closed[client]
         /\ is_connected)
        => ~is_reconnecting

\* C10: in the step in which a reconnect task finishes, however it ends,
\* is_reconnecting becomes false.
C10_FlagReleasedAtTaskEnd ==
    [][\A t \in TaskIds :
          (tasks[t].pc # "done" /\ tasks'[t].pc = "done") => ~is_reconnecting']_vars

\* The second reconnect task has ended by cancellation and the flag is
\* released.
C10_Witness ==
    /\ reconnect_task = 2
    /\ tasks[2].pc = "done"
    /\ tasks[2].err = "cancelled"
    /\ ~is_reconnecting

\* C11: a check that judges a sample with ready=true and a finite latency l,
\* 0 <= l < 10 seconds, is a success: it does not clear is_connected and
\* does not call force_reconnect.
C11_ValidLatencyIsSuccess ==
    [][(/\ m.pc = "sampled" /\ m'.pc \in {"idle", "fr"}
        /\ m.sample.ready
        /\ m.sample.lat.k = "num"
        /\ m.sample.lat.v >= 0
        /\ m.sample.lat.v < 10)
          => /\ is_connected => is_connected'
             /\ fr'["mon"].pc = "idle"
             /\ is_reconnecting' = is_reconnecting]_vars

\* The handler takes up the pending bus message in this step
Handles == last.kind = "pending" /\ last'.kind = "outbound"

\* C12: a message with a numeric target whose routing hint names a
\* sub-conversation S the gateway knows is resolved to S, whatever the store
\* maps the parent to and whatever reply segment the message carries.
C12_HintWins ==
    [][(/\ Handles
        /\ IsNumeric(last.group_id)
        /\ last.hint \in {Str(t) : t \in Threads}
        /\ GetChannel(ToInt(last.hint)) # 0)
          => /\ ~last'.raised
             /\ last'.dest = ToInt(last.hint)]_vars

\* A hinted message went to thread 3 while the store mapped the parent to
\* thread 4 and the message replied to a message in the parent.
C12_Witness ==
    /\ last.kind = "outbound"
    /\ last.msg.hint = "3" /\ last.msg.group_id = "1"
    /\ last.msg.reply = "parent"
    /\ thread_context_map["1"] = "4"
    /\ 4 \notin deleted
    /\ last.dest = 3

\* C13: a message without hint, declared for a parent channel the bridge may
\* send in, whose reply segment names a message that can be fetched in that
\* parent, is resolved to the parent, whatever thread the store maps the
\* parent to.
C13_ReplyInParentWins ==
    [][(/\ Handles
        /\ last.hint = "none"
        /\ IsNumeric(last.group_id)
        /\ ToInt(last.group_id) \in TextChannels
        /\ GetChannel(ToInt(last.group_id)) # 0
        /\ ReplyChannel(last.reply) = ToInt(last.group_id)
        /\ last.send_messages)
          => /\ ~last'.raised
             /\ last'.dest = ToInt(last.group_id)]_vars

\* A reply to a message of the parent went to the parent although
\* inheritance is on and the store maps the parent to the live thread 4.
C13_Witness ==
    /\ last.kind = "outbound"
    /\ last.msg.hint = "none" /\ last.msg.group_id = "1"
    /\ last.msg.reply = "parent"
    /\ inherit
    /\ thread_context_map["1"] = "4"
    /\ 4 \notin deleted
    /\ last.dest = 1

\* C14: with inheritance on, a message without hint and without reply
\* segment, declared for a parent the store maps to a thread T that the
\* gateway knows and the bridge may send in, is resolved to T.
C14_ActiveMappingUsed ==
    [][(/\ Handles
        /\ inherit
        /\ last.hint = "none" /\ last.reply = "none"
        /\ IsNumeric(last.group_id)
        /\ ToInt(last.group_id) \in TextChannels
        /\ GetActiveThread(thread_context_map, last.group_id) # "None"
        /\ GetChannel(ToInt(GetActiveThread(thread_context_map, last.group_id))) # 0
        /\ last.send_in_threads)
          => last'.dest = ToInt(GetActiveThread(thread_context_map, last.group_id))]_vars

\* C15: a destination the resolver returns is a surface the bridge may send
\* on: send_messages for a text channel, send_messages_in_threads for a
\* thread.
C15_DestinationPermitted ==
    [][(Handles /\ last'.dest # 0)
          => /\ last'.dest \in TextChannels => last.send_messages
             /\ last'.dest \in Threads => last.send_in_threads]_vars

\* C16: when handle_discord_message has processed a message posted directly
\* in a parent channel that the store mapped to a thread, the store has no
\* entry for that parent.
C16_ParentMessageClears ==
    [][(/\ last.kind = "none" /\ last'.kind = "inbound"
        /\ last'.channel \in TextChannels
        /\ GetActiveThread(thread_context_map, Str(last'.channel)) # "None")
          => GetActiveThread(thread_context_map', Str(last'.channel)) = "None"]_vars

\* The inbound handler reaches its store operation in this step
StoreOp ==
    /\ last.kind = "none" /\ last'.kind = "inbound"
    /\ last'.outcome = "forwarded" /\ inherit

\* C17: update(P, s) makes get(P) return s and clear(P) makes it return
\* absent, each leaves the entry of every other parent as it was, clear on
\* an absent parent changes nothing, and nothing else changes the store; so
\* get(P) is the thread of the latest update(P, s) that no clear(P) followed.
C17_LastWriterWins ==
    [][IF StoreOp /\ last'.channel \in Threads
       THEN /\ GetActiveThread(thread_context_map', Str(ParentOf(last'.channel)))
                  = Str(last'.channel)
            /\ \A q \in ParentKeys \ {Str(ParentOf(last'.channel))} :
                  thread_context_map'[q] = thread_context_map[q]
       ELSE IF StoreOp
       THEN /\ GetActiveThread(thread_context_map', Str(last'.channel)) = "None"
            /\ \A q \in ParentKeys \ {Str(last'.channel)} :
                  thread_context_map'[q] = thread_context_map[q]
       ELSE thread_context_map' = thread_context_map]_vars

\* clear on channel 2 has just run while channel 1 is mapped to thread 4:
\* the entry of channel 1 is still there.
C17_Witness ==
    /\ last.kind = "inbound" /\ last.outcome = "forwarded" /\ inherit
    /\ last.channel = 2
    /\ thread_context_map["2"] = "None"
    /\ thread_context_map["1"] = "4"

\* C18: the destination resolved for a message depends only on the message
\* and on the store and the gateway state at resolution time: it is the
\* destination a resolver that remembers nothing of earlier messages gives.
C18_NothingCarriedOver ==
    [][Handles =>
          last'.dest = ResolveGuildTarget(last, thread_context_map, {},
                                          last.send_messages,
                                          last.send_in_threads).dest]_vars

\* C19: channel.send is issued for a bus message only while the supervisor
\* is connected: is_connected set, not reconnecting, not shutting down.
C19_SendOnlyWhenConnected ==
    [][(Handles /\ last'.sent)
          => is_connected /\ ~is_reconnecting /\ ~is_shutting_down]_vars

\* C20: handle_message returns normally for every bus message, a hint
\* without original_thread_id and a non-numeric group_id included.
C20_HandleMessageNeverRaises ==
    [][Handles => ~last'.raised]_vars

\* C21: when a destination was resolved and the message the reply segment
\* names cannot be fetched there (not found, forbidden, HTTP error, or an id
\* that is not a number), the message is sent, without a reply reference.
C21_SentWithoutReference ==
    [][(/\ Handles
        /\ ~last'.raised /\ last'.dest # 0
        /\ last.reply # "none"
        /\ \/ last.reply \in {"unknown", "invalid"}
           \/ ReplyChannel(last.reply) # last'.dest
           \/ last'.dest \in deleted)
          => last'.sent /\ last'.reference = "none"]_vars

\* A message replying to an unknown message went out to channel 1 without
\* a reference.
C21_Witness ==
    /\ last.kind = "outbound"
    /\ last.msg.reply = "unknown"
    /\ last.dest = 1 /\ last.sent
    /\ last.reference = "none"

\* C22: when no destination is resolved, no channel.send is made for the
\* message, and the handler only returns: the message is not taken up again.
C22_NoDestinationNoSend ==
    [][/\ (Handles /\ last'.dest = 0) => ~last'.sent
       /\ (last.kind = "outbound" /\ last.dest = 0)
             => last' = last \/ last' = NoEvent]_vars

\* The resolver returned None for a well-formed message and nothing was sent
C22_Witness ==
    /\ last.kind = "outbound"
    /\ ~last.raised /\ last.dest = 0
    /\ last.msg.group_id = "1"
    /\ ~last.sent

RECURSIVE TextOnly(_), Payloads(_)

\* A tree of text segments and lists only
TextOnly(seg) ==
    \/ seg.type = "text"
    \/ seg.type = "seglist" /\ \A i \in 1..Len(seg.sub) : TextOnly(seg.sub[i])

\* The payloads of the text segments of a tree, in tree order
Payloads(seg) ==
    IF seg.type = "text" THEN <<seg.data>>
    ELSE IF seg.type # "seglist" \/ seg.sub = <<>> THEN <<>>
    ELSE Payloads(Head(seg.sub)) \o Payloads(SegList(Tail(seg.sub)))

\* C25: for a tree of text segments only, the content the builder returns is
\* the payloads joined in tree order with newlines, empty payloads included.
C25_TextJoinedInOrder ==
    (built.pc = "built" /\ TextOnly(built.seg))
        => built.result.content = JoinNewline(Payloads(built.seg))

RECURSIVE Strip(_), StripList(_)

\* The tree without its thread_context and reply segments
Strip(seg) ==
    IF seg.type \in {"thread_context", "reply"} THEN SegList(<<>>)
    ELSE IF seg.type = "seglist" THEN SegList(StripList(seg.sub))
    ELSE seg

StripList(sub_segments) ==
    IF sub_segments = <<>> THEN <<>>
    ELSE IF Head(sub_segments).type \in {"thread_context", "reply"}
         THEN StripList(Tail(sub_segments))
         ELSE <<Strip(Head(sub_segments))>> \o StripList(Tail(sub_segments))

\* C28: thread_context and reply segments at any depth add nothing: the
\* builder returns the same content and the same files for a tree and for
\* the tree without them.
C28_MetadataSkipped ==
    built.pc = "built" => built.result = Build(Strip(built.seg))

\* A tree with a reply segment inside a nested list next to a text segment
\* was built into the text alone.
C28_Witness ==
    /\ built.pc = "built"
    /\ built.seg = SegList(<<SegList(<<Leaf("reply", "9")>>), Leaf("text", "a")>>)
    /\ built.result.content = "a"

\* A content longer than the limit is being sent, without files
LongTextOnly ==
    /\ dispatch.pc = "sending"
    /\ dispatch.files = <<>>
    /\ StrLen(WholeText(dispatch.content)) > MAX_MESSAGE_LENGTH

\* C23: every part of a long content that is sent is at most 2000 long,
\* whether it comes from the line splitter or from the code-block splitter.
C23_PartsWithinLimit ==
    dispatch.pc = "sending"
        => \A i \in 1..Len(dispatch.sends) :
              dispatch.sends[i].kind = "part"
                  => dispatch.sends[i].len <= MAX_MESSAGE_LENGTH

RECURSIVE Flatten(_), Rejoin(_)

\* The units of all parts in order
Flatten(parts) ==
    IF parts = <<>> THEN <<>> ELSE Head(parts) \o Flatten(Tail(parts))

\* Units that continue one another inside a line are put together again
Rejoin(units) ==
    IF Len(units) <= 1 THEN units
    ELSE IF /\ units[1].line = units[2].line
            /\ units[2].from = units[1].from + units[1].len
         THEN Rejoin(<<Unit(units[1].line, units[1].from,
                            units[1].len + units[2].len, units[1].kind)>>
                        \o SubSeq(units, 3, Len(units)))
         ELSE <<units[1]>> \o Rejoin(Tail(units))

\* C24: the parts of the line splitter, put together with a newline where
\* the cut was made between lines and with nothing where it was made inside
\* a line, are the content again, blank lines included.
C24_LineSplitRoundTrip ==
    (LongTextOnly /\ ~HasFence(dispatch.content))
        => Rejoin(Flatten(SplitByLines(dispatch.content, MAX_MESSAGE_LENGTH - 10)))
              = WholeText(dispatch.content)

\* C26: when a long content with a reply reference has been sent in parts,
\* the first part sent carries the reference and no other send does.
C26_ReferenceOnFirstPartSent ==
    (LongTextOnly /\ dispatch.reference /\ dispatch.due = <<>>
        /\ dispatch.sends # <<>>)
        => /\ dispatch.sends[1].reference
           /\ \A i \in 2..Len(dispatch.sends) : ~dispatch.sends[i].reference

C29_AtMostTenFiles ==
    dispatch.pc = "sending"
        => \A i \in 1..Len(dispatch.sends) :
              /\ Len(dispatch.sends[i].files) <= 10
              /\ dispatch.sends[i].files =
                    IF dispatch.sends[i].kind = "files"
                    THEN SubSeq(dispatch.files, 1, Min(Len(dispatch.files), 10))
                    ELSE <<>>

\* A message with 11 files went out with the first 10 of them
C29_Witness ==
    /\ dispatch.pc = "sending"
    /\ Len(dispatch.files) = 11
    /\ dispatch.sends # <<>>
    /\ dispatch.sends[1].files = [i \in 1..10 |-> i]

\* client.start(token) is invoked on client c in this step by start() or
\* by a reconnect task
StartInvokedOn(c) ==
    \/ s'.pc = "connecting" /\ s'.cl = c /\ ~(s.pc = "connecting" /\ s.cl = c)
    \/ \E t \in TaskIds :
          /\ tasks'[t].pc = "connecting" /\ tasks'[t].cl = c
          /\ ~(tasks[t].pc = "connecting" /\ tasks[t].cl = c)

\* C32: client.start is never invoked twice on one client: every step that
\* invokes it does so on a client on which it was never invoked before.
C32_ConnectOnlyOnFreshClient ==
    [][\A c \in Clients : StartInvokedOn(c) => phase[c] = "new"]_vars

\* The monitor's call of force_reconnect passes both tests and goes on to
\* its first await in this step
MonIssuesReconnect ==
    fr["mon"].pc = "idle" /\ fr'["mon"].pc # "idle"

\* C33: a health check that resumes from its probe after a force_reconnect
\* has left the connected state (is_reconnecting set or is_connected reset)
\* issues no reconnect of its own.
C33_ResumedCheckIssuesNoReconnect ==
    [][(m.pc \in {"probe", "sampled"} /\ (is_reconnecting \/ ~is_connected))
          => ~MonIssuesReconnect]_vars

\* The check waits for its probe, whose sample is not healthy, while the
\* outside caller's force_reconnect, begun after the check, has set
\* is_reconnecting and reset is_connected and is closing the client.
C33_Witness ==
    /\ m.pc = "sampled"
    /\ ~ProbeHealthy(m.sample.ready, m.sample.lat)
    /\ fr["ext"].pc = "closing"
    /\ is_reconnecting
    /\ ~is_connected

\* A call of force_reconnect has passed its tests and has not returned
ForceReconnectExecuting == \E c \in Callers : fr[c].pc # "idle"

\* A reconnect task exists that has not finished
UnfinishedTasks == {t \in TaskIds : tasks[t].pc \notin {"none", "done"}}

\* C34: is_reconnecting is never stuck: whenever it is set, a call of
\* force_reconnect is still executing or a reconnect task exists that has
\* not finished.
C34_FlagNeverStuck ==
    is_reconnecting => (ForceReconnectExecuting \/ UnfinishedTasks # {})

\* force_reconnect ends in this step, having replaced self.client
RebuiltByForceReconnect ==
    /\ ClientRebuilt
    /\ \E c \in Callers : fr[c].pc \in {"sleep", "reset_close"} /\ fr'[c].pc = "idle"

\* C35: when force_reconnect has rebuilt the client, every event that had a handler on the
\* previous client has a handler on the new client, the reaction events
\* that ReactionEventTask.start registered included.
C35_HandlersSurviveRebuild ==
    [][RebuiltByForceReconnect => handlers \subseteq handlers']_vars

\* The destination the resolver returned for msg is a handle it took from
\* _channel_cache (cache is the cache before the call): every lookup asks
\* the cache first, except the search of the thread that holds the message
\* replied to, which goes through client.get_channel.
DestinationFromCache(msg, dest, cache) ==
    /\ dest # 0
    /\ dest \in cache
    /\ ~(/\ (msg.hint = "none" \/ HintedThread(msg.hint, cache) = 0)
         /\ msg.reply # "none" /\ inherit
         /\ FindThreadByMessageId(msg.reply, ToInt(msg.group_id)) # 0)

\* C36: the resolver never returns a handle that was obtained from a client
\* that has been replaced since.
C36_NoHandleOfReplacedClient ==
    [][(Handles /\ DestinationFromCache(last, last'.dest, channel_cache))
          => last'.dest \notin stale]_vars

\* C37: the answer to an inbound message is resolved only after the handler
\* of that message has applied its change of the context mapping: no answer
\* is resolved while the handler still waits in router.send_message.
C37_StoreChangedBeforeAnswerResolved ==
    [][(Handles /\ inbound.replied) => inbound.pc # "forwarding"]_vars

\* C38: when start() has returned because a reconnect closed its client,
\* run_adapter goes on to graceful_shutdown only if the shutdown event had
\* been set by a signal.
C38_ReconnectDoesNotStopRunner ==
    [][(sd = "idle" /\ sd' # "idle" /\ s.pc = "returned") => shutdown_event]_vars

\* The messages in the order they pass the pipeline: those handed to the
\* handler, those in the main queue, the one the collector holds, those in
\* the queue of the client manager
InPipeline ==
    handed \o main_queue \o (IF collector = 0 THEN <<>> ELSE <<collector>>)
           \o client_queue

\* C39: as long as shutdown is not requested, the messages _on_message has
\* accepted are, in the order of their acceptance and each exactly once,
\* those handed to the handler followed by those still on their way: none
\* is lost, repeated or overtaken, also when the client is replaced.
C39_AcceptedMessagesKeepOrder ==
    ~shutdown_event => InPipeline = [i \in 1..accepted |-> i]

\* Three messages were accepted by the first client; start() has replaced
\* the client since and the new one is not ready yet.  The first message
\* was handed to the handler, the second is in the main queue, the third
\* in the queue of the client manager.
C39_Witness ==
    /\ ~shutdown_event
    /\ s.attempt = 1 /\ s.pc = "connecting" /\ phase[client] = "login"
    /\ handed = <<1>>
    /\ main_queue = <<2>>
    /\ client_queue = <<3>>

====
